---- MODULE Spec2Model ----
(***************************************************************************)
(* The electrodiffusive Pinsky-Rinzel driver: solve_EDPRmodel builds the   *)
(* resting state, hands the rate function dkdt and the initial vector k0   *)
(* to the integrator, and returns the solution; example_simulation         *)
(* rebuilds a model from the stored trajectory.                            *)
(*                                                                         *)
(* Real numbers are exact decimal-scaled rationals (n/d) * 10^e, kept in a *)
(* canonical form, so that the literals of the source (18., 4.3, 616e-12)  *)
(* keep their values and equality of two numbers is equality of records.   *)
(***************************************************************************)
EXTENDS Integers, Sequences, FiniteSets, TLC

\* ------------------------------------------------------------ arithmetic

Abs(x) == IF x < 0 THEN -x ELSE x

Min(a, b) == IF a < b THEN a ELSE b

RECURSIVE GCD(_, _)
GCD(a, b) == IF b = 0 THEN a ELSE GCD(b, a % b)

RECURSIVE Pow10(_)
Pow10(k) == IF k = 0 THEN 1 ELSE 10 * Pow10(k - 1)

\* The canonical form of (n/d) * 10^e: d > 0, gcd(n, d) = 1, and neither n
\* nor d is even (every factor 2 is traded against the exponent).
RECURSIVE Norm(_, _, _)
Norm(n, d, e) ==
    IF n = 0 THEN [n |-> 0, d |-> 1, e |-> 0]
    ELSE IF d < 0 THEN Norm(-n, -d, e)
    ELSE LET g == GCD(Abs(n), d) IN
         IF g > 1 THEN Norm(n \div g, d \div g, e)
         ELSE IF n % 2 = 0 THEN Norm(n \div 2, d * 5, e + 1)
         ELSE IF d % 2 = 0 THEN Norm(n * 5, d \div 2, e - 1)
         ELSE [n |-> n, d |-> d, e |-> e]

\* The one element of a singleton set. { e(x) : x \in {v} } names the value
\* v once, as a local variable of the source does.
The(S) == CHOOSE x \in S : TRUE

\* The decimal literal m * 10^e of the source.
Dec(m, e) == Norm(m, 1, e)

Zero == Dec(0, 0)

Neg(a) == [n |-> -a.n, d |-> a.d, e |-> a.e]

Add(a, b) ==
    IF a.n = 0 THEN b
    ELSE IF b.n = 0 THEN a
    ELSE LET e  == Min(a.e, b.e)
             na == a.n * Pow10(a.e - e)
             nb == b.n * Pow10(b.e - e)
             l  == (a.d \div GCD(a.d, b.d)) * b.d
         IN  Norm(na * (l \div a.d) + nb * (l \div b.d), l, e)

Sub(a, b) == Add(a, Neg(b))

Mul(a, b) ==
    IF a.n = 0 \/ b.n = 0 THEN Zero
    ELSE LET g1 == GCD(Abs(a.n), b.d)
             g2 == GCD(Abs(b.n), a.d)
         IN  Norm((a.n \div g1) * (b.n \div g2),
                  (a.d \div g2) * (b.d \div g1), a.e + b.e)

\* a / b for b # 0.
Div(a, b) ==
    Mul(a, [n |-> IF b.n < 0 THEN -b.d ELSE b.d, d |-> Abs(b.n), e |-> -b.e])

\* ------------------------------------------------- the model (EDPRmodel)

\* Faraday's constant and the compartment volumes of a model snapshot.
F == Dec(9648, 1)

V_si(cell) == Dec(1437, -18)

V_se(cell) == Dec(7185, -19)

V_di(cell) == Dec(1437, -18)

V_de(cell) == Dec(7185, -19)

\* EDPRmodel(T, 20 concentrations, alpha, Ca0_si, Ca0_di, 6 gates): the
\* snapshot stores its arguments; nothing is checked at construction.
EDPRmodel(a) ==
    [T |-> a[1],
     Na_si |-> a[2], Na_se |-> a[3], Na_di |-> a[4], Na_de |-> a[5],
     K_si |-> a[6], K_se |-> a[7], K_di |-> a[8], K_de |-> a[9],
     Cl_si |-> a[10], Cl_se |-> a[11], Cl_di |-> a[12], Cl_de |-> a[13],
     Ca_si |-> a[14], Ca_se |-> a[15], Ca_di |-> a[16], Ca_de |-> a[17],
     X_si |-> a[18], X_se |-> a[19], X_di |-> a[20], X_de |-> a[21],
     alpha |-> a[22], Ca0_si |-> a[23], Ca0_di |-> a[24],
     n |-> a[25], h |-> a[26], s |-> a[27], c |-> a[28], q |-> a[29],
     z |-> a[30]]

\* A rate: the time derivative of quantity qty as the model computes it
\* from a snapshot, plus what a stimulus has added to it (inj). Of the
\* snapshot the rate keeps the value of its quantity (at) and the fixed
\* parameters (par).
Rate(qty, cell) ==
    [qty |-> qty, at |-> cell[qty],
     par |-> [T |-> cell.T, alpha |-> cell.alpha, Ca0_si |-> cell.Ca0_si,
              Ca0_di |-> cell.Ca0_di],
     inj |-> Zero]

\* cell.dkdt(): the 20 concentration rates.
EDPRmodel_dkdt(cell) ==
    << Rate("Na_si", cell), Rate("Na_se", cell), Rate("Na_di", cell),
       Rate("Na_de", cell), Rate("K_si", cell), Rate("K_se", cell),
       Rate("K_di", cell), Rate("K_de", cell), Rate("Cl_si", cell),
       Rate("Cl_se", cell), Rate("Cl_di", cell), Rate("Cl_de", cell),
       Rate("Ca_si", cell), Rate("Ca_se", cell), Rate("Ca_di", cell),
       Rate("Ca_de", cell), Rate("X_si", cell), Rate("X_se", cell),
       Rate("X_di", cell), Rate("X_de", cell) >>

\* cell.dmdt(): the 6 gate rates.
EDPRmodel_dmdt(cell) ==
    << Rate("n", cell), Rate("h", cell), Rate("s", cell), Rate("c", cell),
       Rate("q", cell), Rate("z", cell) >>

\* cell.total_charge([Na, K, Cl, Ca, X], V): F * (valence-weighted sum) * V.
total_charge(k, V) ==
    Mul(Mul(F, Sub(Add(Sub(Add(k[1], k[2]), k[3]), Mul(Dec(2, 0), k[4])),
                   k[5])), V)

\* The domain of the model: with a concentration at or below zero a
\* reversal potential is the logarithm of a non-positive number, and the
\* rates are not finite.
Valid(k) == \A i \in 1..20 : k[i].n > 0

\* The injector: the magnitude is added to the first rate and subtracted
\* from the second, each scaled by its compartment's volume.
somatic_injection_current(cell, dKdt_si, dKdt_se, weight, magnitude) ==
    << [dKdt_si EXCEPT !.inj =
            Add(@, Div(magnitude, Mul(Mul(weight, F), V_si(cell))))],
       [dKdt_se EXCEPT !.inj =
            Sub(@, Div(magnitude, Mul(Mul(weight, F), V_se(cell))))] >>

\* ------------------------------------------------------ solve_EDPRmodel

VARIABLES pc, t_dur, alpha, I_stim, stim_start, stim_end,
          init_cell, charges, sol_t, sol_y, call, prev, nonfinite,
          cells, locals, ex_cell

vars == << pc, t_dur, alpha, I_stim, stim_start, stim_end,
           init_cell, charges, sol_t, sol_y, call, prev, nonfinite,
           cells, locals, ex_cell >>

T == Dec(30914, -2)

Na_si0 == Dec(18, 0)
Na_se0 == Dec(140, 0)
K_si0 == Dec(99, 0)
K_se0 == Dec(43, -1)
Cl_si0 == Dec(7, 0)
Cl_se0 == Dec(134, 0)
Ca_si0 == Dec(1, -2)
Ca_se0 == Dec(11, -1)

Na_di0 == Dec(18, 0)
Na_de0 == Dec(140, 0)
K_di0 == Dec(99, 0)
K_de0 == Dec(43, -1)
Cl_di0 == Dec(7, 0)
Cl_de0 == Dec(134, 0)
Ca_di0 == Dec(1, -2)
Ca_de0 == Dec(11, -1)

res_i ==
    Div(Mul(Mul(Dec(-68, -3), Dec(3, -2)), Dec(616, -12)),
        Mul(Dec(1437, -18), Dec(9648, 1)))

res_e ==
    Div(Mul(Mul(Dec(-68, -3), Dec(3, -2)), Dec(616, -12)),
        Mul(Dec(7185, -19), Dec(9648, 1)))

\* Variant: the resting term added instead of subtracted.
X_si0_plus == Add(Add(Sub(Add(Na_si0, K_si0), Cl_si0), Mul(Dec(2, 0), Ca_si0)), res_i)
X_si0 == Sub(Add(Sub(Add(Na_si0, K_si0), Cl_si0), Mul(Dec(2, 0), Ca_si0)), res_i)
X_se0 == Add(Add(Sub(Add(Na_se0, K_se0), Cl_se0), Mul(Dec(2, 0), Ca_se0)), res_e)
X_di0 == Sub(Add(Sub(Add(Na_di0, K_di0), Cl_di0), Mul(Dec(2, 0), Ca_di0)), res_i)
X_de0 == Add(Add(Sub(Add(Na_de0, K_de0), Cl_de0), Mul(Dec(2, 0), Ca_de0)), res_e)

n0 == Dec(3, -4)
h0 == Dec(999, -3)
s0 == Dec(7, -3)
c0 == Dec(6, -3)
q0 == Dec(11, -3)
z0 == Dec(1, 0)

\* dkdt, line 62: the state vector unpacked into names.
Unpack(k) ==
    [Na_si |-> k[1], Na_se |-> k[2], Na_di |-> k[3], Na_de |-> k[4],
     K_si |-> k[5], K_se |-> k[6], K_di |-> k[7], K_de |-> k[8],
     Cl_si |-> k[9], Cl_se |-> k[10], Cl_di |-> k[11], Cl_de |-> k[12],
     Ca_si |-> k[13], Ca_se |-> k[14], Ca_di |-> k[15], Ca_de |-> k[16],
     X_si |-> k[17], X_se |-> k[18], X_di |-> k[19], X_de |-> k[20],
     n |-> k[21], h |-> k[22], s |-> k[23], c |-> k[24], q |-> k[25],
     z |-> k[26]]

\* Variant: the calcium baselines taken from the evolving state.
my_cell_evolving(k) ==
    The({ EDPRmodel(<< T, u.Na_si, u.Na_se, u.Na_di, u.Na_de, u.K_si,
                       u.K_se, u.K_di, u.K_de, u.Cl_si, u.Cl_se, u.Cl_di,
                       u.Cl_de, u.Ca_si, u.Ca_se, u.Ca_di, u.Ca_de, u.X_si,
                       u.X_se, u.X_di, u.X_de, alpha, u.Ca_si, u.Ca_di,
                       u.n, u.h, u.s, u.c, u.q, u.z >>)
           : u \in {Unpack(k)} })

\* dkdt, line 64: the snapshot built from the unpacked vector.
my_cell(k) ==
    The({ EDPRmodel(<< T, u.Na_si, u.Na_se, u.Na_di, u.Na_de, u.K_si,
                       u.K_se, u.K_di, u.K_de, u.Cl_si, u.Cl_se, u.Cl_di,
                       u.Cl_de, u.Ca_si, u.Ca_se, u.Ca_di, u.Ca_de, u.X_si,
                       u.X_se, u.X_di, u.X_de, alpha, Ca_si0, Ca_di0,
                       u.n, u.h, u.s, u.c, u.q, u.z >>)
           : u \in {Unpack(k)} })

\* dkdt, lines 66-68: the rates of the snapshot, bound to their names.
rates(k) ==
    The({ LET o == EDPRmodel_dkdt(cell)
              m == EDPRmodel_dmdt(cell)
          IN  [dNadt_si |-> o[1], dNadt_se |-> o[2], dNadt_di |-> o[3],
               dNadt_de |-> o[4], dKdt_si |-> o[5], dKdt_se |-> o[6],
               dKdt_di |-> o[7], dKdt_de |-> o[8], dCldt_si |-> o[9],
               dCldt_se |-> o[10], dCldt_di |-> o[11], dCldt_de |-> o[12],
               dCadt_si |-> o[13], dCadt_se |-> o[14], dCadt_di |-> o[15],
               dCadt_de |-> o[16], dresdt_si |-> o[17],
               dresdt_se |-> o[18], dresdt_di |-> o[19],
               dresdt_de |-> o[20], dndt |-> m[1], dhdt |-> m[2],
               dsdt |-> m[3], dcdt |-> m[4], dqdt |-> m[5], dzdt |-> m[6]]
          : cell \in {my_cell(k)} })

\* Variant: the window closed at both ends.
StimActive_closed(t) == t >= stim_start /\ t <= stim_end

\* Variant: the stimulus latched off once an evaluation is remembered.
StimActive_once(t) == t > stim_start /\ t < stim_end /\ prev = << >>

\* dkdt, line 70: the stimulus window.
StimActive(t) == t > stim_start /\ t < stim_end

\* Variant: the dendrite's extracellular rate passed as the second rate.
InjectorCalls_de(t, k) ==
    IF StimActive(t)
    THEN The({ << [cell |-> cell, a |-> r.dKdt_si, b |-> r.dKdt_de,
                   weight |-> Dec(1, 0), magnitude |-> I_stim] >>
               : cell \in {my_cell(k)}, r \in {rates(k)} })
    ELSE << >>

\* Variant: the example's current passed instead of the argument I_stim.
InjectorCalls_fixed(t, k) ==
    IF StimActive(t)
    THEN The({ << [cell |-> cell, a |-> r.dKdt_si, b |-> r.dKdt_se,
                   weight |-> Dec(1, 0), magnitude |-> Dec(28, -12)] >>
               : cell \in {my_cell(k)}, r \in {rates(k)} })
    ELSE << >>

\* dkdt, line 71: the calls of the injector made by one evaluation, each
\* with its arguments.
InjectorCalls(t, k) ==
    IF StimActive(t)
    THEN The({ << [cell |-> cell, a |-> r.dKdt_si, b |-> r.dKdt_se,
                   weight |-> Dec(1, 0), magnitude |-> I_stim] >>
               : cell \in {my_cell(k)}, r \in {rates(k)} })
    ELSE << >>

\* Variant: the injector's first rate also assigned to dNadt_si.
stimulated_Na(t, k) ==
    The({ IF i = << >> THEN r
          ELSE The({ [r EXCEPT !.dKdt_si = p[1], !.dKdt_se = p[2],
                                   !.dNadt_si = p[1]]
                     : p \in {somatic_injection_current(
                                  i[1].cell, i[1].a, i[1].b, i[1].weight,
                                  i[1].magnitude)} })
          : r \in {rates(k)}, i \in {InjectorCalls(t, k)} })

\* dkdt, line 71: the injector's pair assigned to dKdt_si, dKdt_se.
stimulated(t, k) ==
    The({ IF i = << >> THEN r
          ELSE The({ [r EXCEPT !.dKdt_si = p[1], !.dKdt_se = p[2]]
                     : p \in {somatic_injection_current(
                                  i[1].cell, i[1].a, i[1].b, i[1].weight,
                                  i[1].magnitude)} })
          : r \in {rates(k)}, i \in {InjectorCalls(t, k)} })

\* Variant: dhdt and dndt returned in each other's place.
dkdt_swapped(t, k) ==
    The({ << r.dNadt_si, r.dNadt_se, r.dNadt_di, r.dNadt_de, r.dKdt_si,
             r.dKdt_se, r.dKdt_di, r.dKdt_de, r.dCldt_si, r.dCldt_se,
             r.dCldt_di, r.dCldt_de, r.dCadt_si, r.dCadt_se, r.dCadt_di,
             r.dCadt_de, r.dresdt_si, r.dresdt_se, r.dresdt_di,
             r.dresdt_de, r.dhdt, r.dndt, r.dsdt, r.dcdt, r.dqdt, r.dzdt >>
          : r \in {stimulated(t, k)} })

\* dkdt, lines 60-75: the rate tuple returned.
dkdt(t, k) ==
    The({ << r.dNadt_si, r.dNadt_se, r.dNadt_di, r.dNadt_de, r.dKdt_si,
             r.dKdt_se, r.dKdt_di, r.dKdt_de, r.dCldt_si, r.dCldt_se,
             r.dCldt_di, r.dCldt_de, r.dCadt_si, r.dCadt_se, r.dCadt_di,
             r.dCadt_de, r.dresdt_si, r.dresdt_se, r.dresdt_di,
             r.dresdt_de, r.dndt, r.dhdt, r.dsdt, r.dcdt, r.dqdt, r.dzdt >>
          : r \in {stimulated(t, k)} })

\* Line 78: the snapshot of the initial values.
InitCell ==
    EDPRmodel(<< T, Na_si0, Na_se0, Na_di0, Na_de0, K_si0, K_se0, K_di0,
                 K_de0, Cl_si0, Cl_se0, Cl_di0, Cl_de0, Ca_si0, Ca_se0,
                 Ca_di0, Ca_de0, X_si0, X_se0, X_di0, X_de0, alpha, Ca_si0,
                 Ca_di0, n0, h0, s0, c0, q0, z0 >>)

\* Lines 83-86: the total charge of each compartment of a snapshot.
Charges(init) ==
    The({ [q_si |-> total_charge(<< cell.Na_si, cell.K_si, cell.Cl_si,
                                    cell.Ca_si, cell.X_si >>, V_si(cell)),
           q_se |-> total_charge(<< cell.Na_se, cell.K_se, cell.Cl_se,
                                    cell.Ca_se, cell.X_se >>, V_se(cell)),
           q_di |-> total_charge(<< cell.Na_di, cell.K_di, cell.Cl_di,
                                    cell.Ca_di, cell.X_di >>, V_di(cell)),
           q_de |-> total_charge(<< cell.Na_de, cell.K_de, cell.Cl_de,
                                    cell.Ca_de, cell.X_de >>, V_de(cell))]
          : cell \in {init} })

\* Lines 91-92: the initial vector handed to the integrator.
k0 ==
    << Na_si0, Na_se0, Na_di0, Na_de0, K_si0, K_se0, K_di0, K_de0, Cl_si0,
       Cl_se0, Cl_di0, Cl_de0, Ca_si0, Ca_se0, Ca_di0, Ca_de0, X_si0,
       X_se0, X_di0, X_de0, n0, h0, s0, c0, q0, z0 >>

\* Lines 95-96: the rows of sol.y unpacked into names.
UnpackSol(y) ==
    [Na_si |-> y[1], Na_se |-> y[2], Na_di |-> y[3], Na_de |-> y[4],
     K_si |-> y[5], K_se |-> y[6], K_di |-> y[7], K_de |-> y[8],
     Cl_si |-> y[9], Cl_se |-> y[10], Cl_di |-> y[11], Cl_de |-> y[12],
     Ca_si |-> y[13], Ca_se |-> y[14], Ca_di |-> y[15], Ca_de |-> y[16],
     X_si |-> y[17], X_se |-> y[18], X_di |-> y[19], X_de |-> y[20],
     n |-> y[21], h |-> y[22], s |-> y[23], c |-> y[24], q |-> y[25],
     z |-> y[26]]

\* ---------------------------------------------------- example_simulation

\* Lines 17-18: the rows of sol.y unpacked into names.
UnpackExample(y) ==
    [Na_si |-> y[1], Na_se |-> y[2], Na_di |-> y[3], Na_de |-> y[4],
     K_si |-> y[5], K_se |-> y[6], K_di |-> y[7], K_de |-> y[8],
     Cl_si |-> y[9], Cl_se |-> y[10], Cl_di |-> y[11], Cl_de |-> y[12],
     Ca_si |-> y[13], Ca_se |-> y[14], Ca_di |-> y[15], Ca_de |-> y[16],
     X_si |-> y[17], X_se |-> y[18], X_di |-> y[19], X_de |-> y[20],
     n |-> y[21], h |-> y[22], s |-> y[23], c |-> y[24], q |-> y[25],
     z |-> y[26]]

\* Line 21: the model rebuilt from the stored trajectory (Ca_si[0] is the
\* first sample of the row).
ExampleCell(y) ==
    The({ EDPRmodel(<< Dec(30914, -2), u.Na_si, u.Na_se, u.Na_di, u.Na_de,
                       u.K_si, u.K_se, u.K_di, u.K_de, u.Cl_si, u.Cl_se,
                       u.Cl_di, u.Cl_de, u.Ca_si, u.Ca_se, u.Ca_di,
                       u.Ca_de, u.X_si, u.X_se, u.X_di, u.X_de, alpha,
                       u.Ca_si[1], u.Ca_di[1], u.n, u.h, u.s, u.c, u.q,
                       u.z >>)
          : u \in {UnpackExample(y)} })

\* ------------------------------------------------------------ the bounds

\* The simulated times are 0 .. MaxT.
MaxT == 2

\* The coupling strengths a caller passes (the example's 2.0, and -1).
Alphas == {Dec(2, 0), Dec(-1, 0)}

\* The stimulus currents a caller passes (none, and the example's 28e-12).
Stimuli == {Zero, Dec(28, -12)}

\* The state vectors the integrator proposes after t = 0: one with every
\* component different, and the same with the soma's extracellular
\* potassium driven below zero.
kAlt == [i \in 1..26 |-> IF i <= 20 THEN Dec(i, 0) ELSE Dec(i, -2)]

kBad == [kAlt EXCEPT ![6] = Dec(-1, -1)]

StageVectors(t) == IF t = 0 THEN {k0} ELSE {kAlt, kBad}

\* ---------------------------------------------------------------- actions

\* What a snapshot keeps fixed: temperature, coupling, calcium baselines.
Params(cell) ==
    [T |-> cell.T, alpha |-> cell.alpha, Ca0_si |-> cell.Ca0_si,
     Ca0_di |-> cell.Ca0_di]

\* sol.y: one row per component, one column per sample.
SolY == [i \in 1..26 |-> [j \in 1..Len(sol_y) |-> sol_y[j][i]]]

NoCall == << >>

Init ==
    /\ pc = "call"
    /\ t_dur \in 1..MaxT
    /\ alpha \in Alphas
    /\ I_stim \in Stimuli
    /\ stim_start \in 0..MaxT
    /\ stim_end \in 0..MaxT
    /\ init_cell = << >>
    /\ charges = << >>
    /\ sol_t = << >>
    /\ sol_y = << >>
    /\ call = NoCall
    /\ prev = NoCall
    /\ nonfinite = FALSE
    /\ cells = {}
    /\ locals = << >>
    /\ ex_cell = << >>

\* solve_EDPRmodel up to the call of solve_ivp: the initial snapshot, its
\* charges, and the integrator started at (0, k0).
Prepare ==
    /\ pc = "call"
    /\ pc' = "solving"
    /\ \E cell \in {InitCell} :
          /\ init_cell' = cell
          /\ charges' = Charges(cell)
          /\ cells' = cells \cup {Params(cell)}
    /\ sol_t' = << 0 >>
    /\ sol_y' = << k0 >>
    /\ UNCHANGED << t_dur, alpha, I_stim, stim_start, stim_end, call, prev,
                    nonfinite, locals, ex_cell >>

\* The integrator evaluates dkdt(t, k). It may remember any earlier
\* evaluation (prev) next to the latest one (call).
Eval(t, k) ==
    /\ pc = "solving"
    /\ call' = [t |-> t, k |-> k, out |-> dkdt(t, k),
                inj |-> InjectorCalls(t, k)]
    /\ prev' \in {prev, call}
    /\ nonfinite' = (nonfinite \/ ~Valid(k))
    /\ cells' = cells \cup { Params(cell) : cell \in {my_cell(k)} }
    /\ UNCHANGED << pc, t_dur, alpha, I_stim, stim_start, stim_end,
                    init_cell, charges, sol_t, sol_y, locals, ex_cell >>

\* The integrator accepts the state it evaluated last as the next sample;
\* its error estimate uses the rates of that state, so they are finite.
Step ==
    /\ pc = "solving"
    /\ call # NoCall
    /\ Valid(call.k)
    /\ call.t > sol_t[Len(sol_t)]
    /\ sol_t' = Append(sol_t, call.t)
    /\ sol_y' = Append(sol_y, call.k)
    /\ UNCHANGED << pc, t_dur, alpha, I_stim, stim_start, stim_end,
                    init_cell, charges, call, prev, nonfinite, cells,
                    locals, ex_cell >>

\* solve_ivp returns: at t_dur, or earlier when it gives up.
Finish ==
    /\ pc = "solving"
    /\ pc' = "solved"
    /\ call' = NoCall
    /\ prev' = NoCall
    /\ UNCHANGED << t_dur, alpha, I_stim, stim_start, stim_end, init_cell,
                    charges, sol_t, sol_y, nonfinite, cells, locals,
                    ex_cell >>

\* Lines 95-98: sol.y is unpacked and sol is returned.
Return ==
    /\ pc = "solved"
    /\ pc' = "returned"
    /\ locals' = The({ UnpackSol(y) : y \in {SolY} })
    /\ UNCHANGED << t_dur, alpha, I_stim, stim_start, stim_end, init_cell,
                    charges, sol_t, sol_y, call, prev, nonfinite, cells,
                    ex_cell >>

\* example_simulation, lines 17-25: the model of the whole trajectory.
Example ==
    /\ pc = "returned"
    /\ pc' = "plotted"
    /\ \E cell \in {ExampleCell(SolY)} :
          /\ ex_cell' = cell
          /\ cells' = cells \cup {Params(cell)}
    /\ UNCHANGED << t_dur, alpha, I_stim, stim_start, stim_end, init_cell,
                    charges, sol_t, sol_y, call, prev, nonfinite, locals >>

Next ==
    \/ Prepare
    \/ \E t \in 0..MaxT : \E k \in StageVectors(t) : t <= t_dur /\ Eval(t, k)
    \/ Step
    \/ Finish
    \/ Return
    \/ Example

Spec == Init /\ [][Next]_vars

\* ----------------------------------------------------------------- claims

\* The order of the state vector: species by compartment, then the gates.
Order ==
    << "Na_si", "Na_se", "Na_di", "Na_de", "K_si", "K_se", "K_di", "K_de",
       "Cl_si", "Cl_se", "Cl_di", "Cl_de", "Ca_si", "Ca_se", "Ca_di",
       "Ca_de", "X_si", "X_se", "X_di", "X_de", "n", "h", "s", "c", "q",
       "z" >>

\* The rates of the model's dkdt() and dmdt() for the snapshot of k, with
\* no stimulus.
Unperturbed(k) ==
    The({ EDPRmodel_dkdt(cell) \o EDPRmodel_dmdt(cell)
          : cell \in {my_cell(k)} })

InWindow(t) == stim_start < t /\ t < stim_end

\* C1: component i of the rate tuple is the derivative of the quantity
\* unpacked from k[i], in the order Na, K, Cl, Ca, X (si, se, di, de each),
\* n, h, s, c, q, z; k0 and both unpackings of sol.y use the same order.
C1_Aligned ==
    /\ call # NoCall =>
          \A i \in 1..26 : /\ call.out[i].qty = Order[i]
                           /\ call.out[i].at = call.k[i]
    /\ pc # "call" => \A i \in 1..26 : sol_y[1][i] = init_cell[Order[i]]
    /\ locals # << >> => \A i \in 1..26 : locals[Order[i]] = SolY[i]
    /\ ex_cell # << >> => \A i \in 1..26 : ex_cell[Order[i]] = SolY[i]

C1_Witness ==
    /\ call # NoCall
    /\ call.k = kAlt
    /\ call.inj # << >>
    /\ Len(sol_y) > 1

\* C2: the injector is applied exactly when stim_start < t < stim_end; at
\* t = stim_start, at t = stim_end and outside the window the rate vector is
\* the unperturbed one.
C2_StrictWindow ==
    call # NoCall =>
       /\ InWindow(call.t) => Len(call.inj) = 1
       /\ (\/ call.t = stim_start
           \/ call.t = stim_end
           \/ call.t < stim_start
           \/ call.t > stim_end)
          => /\ call.inj = << >>
             /\ call.out = Unperturbed(call.k)

C2_Witness ==
    /\ call # NoCall
    /\ prev # NoCall
    /\ I_stim # Zero
    /\ stim_start < stim_end
    /\ call.t = stim_end
    /\ prev.t = stim_start

\* C3: with I_stim = 0, or with stim_start = stim_end, every rate
\* evaluation returns the vector of a run with no stimulus.
C3_NoStimulus ==
    (call # NoCall /\ (I_stim = Zero \/ stim_start = stim_end))
       => call.out = Unperturbed(call.k)

C3_Witness ==
    /\ call # NoCall
    /\ prev # NoCall
    /\ I_stim = Zero
    /\ call.inj # << >>
    /\ stim_start # stim_end

C5_Frame ==
    (call # NoCall /\ call.inj # << >>) =>
       /\ \A i \in (1..26) \ {5, 6} : call.out[i] = Unperturbed(call.k)[i]
       /\ Len(call.inj) = 1
       /\ call.inj[1].weight = Dec(1, 0)
       /\ call.inj[1].magnitude = I_stim

C5_Witness ==
    /\ call # NoCall
    /\ call.inj # << >>
    /\ I_stim # Zero
    /\ call.out[5] # Unperturbed(call.k)[5]
    /\ call.out[6] # Unperturbed(call.k)[6]

\* C6: at t = 0 the valence-weighted sum Na + K - Cl + 2 Ca - X is res_i in
\* both intracellular compartments and -res_e in both extracellular ones, the
\* total charge is that sum times F times the volume, and the intracellular
\* and extracellular charges of soma, and of dendrite, are opposite.
ValenceSum(cell, comp) ==
    LET v(sp) == cell[sp \o "_" \o comp] IN
    Sub(Add(Sub(Add(v("Na"), v("K")), v("Cl")), Mul(Dec(2, 0), v("Ca"))),
        v("X"))

C6_ChargeAtStart ==
    pc # "call" =>
       /\ ValenceSum(init_cell, "si") = res_i
       /\ ValenceSum(init_cell, "di") = res_i
       /\ ValenceSum(init_cell, "se") = Neg(res_e)
       /\ ValenceSum(init_cell, "de") = Neg(res_e)
       /\ charges.q_si = Mul(Mul(F, res_i), Dec(1437, -18))
       /\ charges.q_di = Mul(Mul(F, res_i), Dec(1437, -18))
       /\ charges.q_se = Mul(Mul(F, Neg(res_e)), Dec(7185, -19))
       /\ charges.q_de = Mul(Mul(F, Neg(res_e)), Dec(7185, -19))
       /\ charges.q_si = Neg(charges.q_se)
       /\ charges.q_di = Neg(charges.q_de)

C6_Witness ==
    /\ pc = "solving"
    /\ charges.q_si = Mul(Mul(Dec(-68, -3), Dec(3, -2)), Dec(616, -12))
    /\ charges.q_se.n > 0

\* C7: a call with alpha <= 0 ends in an error before any rate evaluation
\* and before the integrator is started.
C7_RejectsAlpha ==
    alpha.n <= 0 => pc = "call"

\* C8: once a concentration of an evaluated state is <= 0 the run ends in an
\* error that names the species, the compartment and the time; no
\* trajectory is returned.
C8_DomainError ==
    nonfinite => pc \notin {"solved", "returned", "plotted"}

\* C9: the injector takes and returns the pair (dKdt_si, dKdt_de): the
\* soma-intracellular and the dendrite-extracellular potassium rates.
C9_PairSiDe ==
    (call # NoCall /\ call.inj # << >>) =>
       /\ call.inj[1].a.qty = "K_si"
       /\ call.inj[1].b.qty = "K_de"

\* C9, amended: the injector takes and returns the pair (dKdt_si, dKdt_se),
\* the soma-intracellular and the soma-extracellular potassium rates, and its
\* result is what the rate tuple holds at positions 5 and 6.
C9_PairSiSe ==
    (call # NoCall /\ call.inj # << >>) =>
       LET i == call.inj[1] IN
       /\ i.a = Unperturbed(call.k)[5]
       /\ i.a.qty = "K_si"
       /\ i.b = Unperturbed(call.k)[6]
       /\ i.b.qty = "K_se"
       /\ << call.out[5], call.out[6] >> =
             somatic_injection_current(i.cell, i.a, i.b, i.weight,
                                       i.magnitude)

C9_Witness ==
    /\ call # NoCall
    /\ call.inj # << >>
    /\ call.k = kAlt
    /\ I_stim # Zero
    /\ call.out[8] = Unperturbed(call.k)[8]

\* C10: every snapshot constructed (the initial one, the one of each rate
\* evaluation, the example's) gets T = 309.14, the alpha passed to
\* solve_EDPRmodel and the calcium baselines 0.01, the initial Ca_si and
\* Ca_di.
C10_FixedParameters ==
    /\ \A p \in cells :
          /\ p.T = Dec(30914, -2)
          /\ p.alpha = alpha
          /\ p.Ca0_si = Dec(1, -2)
          /\ p.Ca0_di = Dec(1, -2)
    /\ pc # "call" =>
          /\ Params(init_cell) \in cells
          /\ init_cell.Ca_si = Dec(1, -2)
          /\ init_cell.Ca_di = Dec(1, -2)
    /\ call # NoCall => \A i \in 1..26 : call.out[i].par \in cells
    /\ ex_cell # << >> => Params(ex_cell) \in cells

C10_Witness ==
    /\ pc = "plotted"
    /\ Len(sol_y) > 2
    /\ sol_y[2][13] # Dec(1, -2)
    /\ nonfinite

====
